---- MODULE Spec2Model ----
(***************************************************************************)
(* State-machine model of the hh_it_scrapper ingestion pipeline.           *)
(*                                                                         *)
(* The repository carries two builds of the pipeline, and both are         *)
(* modelled; the variable impl says which one a behaviour runs:            *)
(*   "main"    - the single-file program src/main.go                       *)
(*   "modular" - the program split into packages: src/unnamed/part_003     *)
(*               (package main), src/api/main.go (package api) and         *)
(*               src/unnamed/part_004 (config, init-mongo.js, storage)     *)
(* The remote API and MongoDB are the environment: every HTTP response,    *)
(* every page listing and every transient store failure is drawn           *)
(* nondeterministically.                                                   *)
(***************************************************************************)
EXTENDS Integers, Sequences, FiniteSets, TLC

\* ---------------------------------------------------------------- bounds
\* Pool width.  The source sets 10 (src/main.go:31, part_003:103); the model
\* runs the same code with a narrower pool.
MaxConcurrency == 2
\* Per scenario (see env): the number of listing keys the server knows, the
\* largest number of items on one page and the largest page count.
RetryKeys == 1
RetryItems == 1
RetryPages == 1
PoolKeys == 3
PoolItems == 3
PoolPages == 1
PagesKeys == 1
PagesItems == 1
PagesPages == 3
ContainKeys == 2
ContainItems == 2
ContainPages == 2
EndKeys == 2
EndItems == 1
EndPages == 2

\* ------------------------------------------------------ program constants
MaxRetries == 3

Impls == {"main", "modular"}
Max(a, b) == IF a >= b THEN a ELSE b
Workers == 1..Max(PoolItems, Max(RetryItems, PagesItems))
Texts == {"", "a", "b"}
NoText == "<none>"
NoHash == ""

\* crypto/md5 + hex.EncodeToString, tabulated for the texts of the model.
md5Hash(text) ==
  CASE text = "" -> "d41d8cd98f00b204e9800998ecf8427e"
    [] text = "a" -> "0cc175b9c0f1b6a831c399e269772661"
    [] text = "b" -> "92eb5ffee6ae2fec3ad71c777531578f"

\* The value of the "description" field of a detail payload.
Descriptions ==
  {[type |-> "absent"], [type |-> "number"]} \cup
  {[type |-> "string", val |-> t] : t \in Texts}

\* What one detail request can come back with: a transport failure, or a
\* status with a body that is malformed JSON or an object with a description.
DetailResponses ==
  {[err |-> TRUE]} \cup
  {[err |-> FALSE, status |-> s, json |-> FALSE] : s \in {404, 403, 429, 500}} \cup
  {[err |-> FALSE, status |-> 200, json |-> FALSE]} \cup
  {[err |-> FALSE, status |-> 200, json |-> TRUE, description |-> d] : d \in Descriptions}

\* The kind of a detail response, as the environment sees it.
KindOf(r) ==
  IF r.err THEN "transport"
  ELSE IF r.status = 404 THEN "notfound"
  ELSE IF r.status \in {403, 429} THEN "ratelimit"
  ELSE IF r.status # 200 THEN "status"
  ELSE IF ~r.json THEN "badjson"
  ELSE IF r.description.type # "string" THEN "nodesc"
  ELSE "ok"

AllFaults == {"transport", "notfound", "ratelimit", "status", "badjson", "nodesc", "store"}

\* The same, telling apart the three ways a description can be unusable.
PayloadKind(r) ==
  IF KindOf(r) = "nodesc" THEN r.description.type
  ELSE IF KindOf(r) = "ok" /\ r.description.val = "" THEN "empty"
  ELSE KindOf(r)

\* What one search request can come back with.
SearchResults == {"ok", "transport", "parse", "status"}

RECURSIVE SeqsUpTo(_, _)
SeqsUpTo(S, n) ==
  IF n = 0 THEN {<<>>}
  ELSE LET shorter == SeqsUpTo(S, n - 1)
       IN shorter \cup {Append(s, x) : s \in {t \in shorter : Len(t) = n - 1}, x \in S}

Range(s) == {s[i] : i \in 1..Len(s)}

\* The item lists a page can carry: keys, no key twice on one page.
PageItems(keys, n) == {s \in SeqsUpTo(keys, n) : Cardinality(Range(s)) = Len(s)}

\* The records the collection can hold when the run starts: none; one of a
\* key the server lists (1) or no longer lists (0); one written before
\* description_hash existed.
InitStores ==
  { {},
    {[id |-> 1, description |-> "a", description_hash |-> md5Hash("a")]},
    {[id |-> 0, description |-> "a", description_hash |-> md5Hash("a")]},
    {[id |-> 0, description |-> "a", description_hash |-> NoHash]} }

VARIABLES
  env,           \* what the environment may do in this behaviour: keys,
                 \* items per page, page count, description texts, faults
  impl,          \* which build runs
  store,         \* the vacancies collection: a set of records
  serverPages,   \* the page count the server has for the date range
  existingVacancyIDs,
  existingDescriptionHashes,
  dpc,           \* where main / fetchAndStoreVacancies is
  page,
  totalPages,
  savedCount,
  reported,      \* the count the run printed, -1 before
  cancelled,     \* ctx.Done() is closed
  searchCalls,   \* the page indices requested so far, in order
  failedPages,   \* the page indices whose request failed
  listed,        \* the keys the current page listed, as the server sent them
  ids,           \* the keys handed to the worker pool for the current page
  next,          \* modular: position of the next key the dispatcher takes
  sem,           \* number of tokens in the semaphore channel
  wpc,           \* per worker: idle, fetching, upsert, add, sleep, done
  retries,       \* per worker: the retries counter of the retry loop
  attempts,      \* per worker: detail requests issued so far
  description,   \* per worker: the description text of the last payload
  outcome,       \* per worker: terminal outcome, "none" before
  seen,          \* per worker: kinds of failed attempts so far
  last,          \* per worker: what the last detail response was
  wrote,         \* per worker: its upsert changed the collection
  counted,       \* per worker: times it added 1 to savedCount
  observed       \* what the run has met so far.  clean: every detail and
                 \* store call succeeded, every listed key was new and listed
                 \* once, all payload texts were non-empty and different;
                 \* while clean, the keys handed to the pool and the texts

dvars == <<dpc, page, totalPages, reported, searchCalls, failedPages, listed, ids, next>>
wvars == <<sem, wpc, retries, attempts, description, outcome, seen, last, wrote, counted>>
cvars == <<existingVacancyIDs, existingDescriptionHashes>>
vars == <<env, impl, store, serverPages, cvars, dvars, wvars, savedCount, cancelled, observed>>

Idle == [w \in Workers |-> "idle"]

InitWith(e, stores) ==
  /\ env = e
  /\ impl \in Impls
  /\ store \in stores
  /\ serverPages \in 1..e.pages
  /\ existingVacancyIDs = {}
  /\ existingDescriptionHashes = {}
  /\ dpc = "load"
  /\ page = 0
  /\ totalPages = 0
  /\ savedCount = 0
  /\ reported = -1
  /\ cancelled = FALSE
  /\ searchCalls = <<>>
  /\ failedPages = {}
  /\ listed = <<>>
  /\ ids = <<>>
  /\ next = 1
  /\ sem = 0
  /\ wpc = Idle
  /\ retries = [w \in Workers |-> 0]
  /\ attempts = [w \in Workers |-> 0]
  /\ description = [w \in Workers |-> NoText]
  /\ outcome = [w \in Workers |-> "none"]
  /\ seen = [w \in Workers |-> {}]
  /\ last = [w \in Workers |-> "none"]
  /\ wrote = [w \in Workers |-> FALSE]
  /\ counted = [w \in Workers |-> 0]
  /\ observed = [clean |-> TRUE, keys |-> {}, texts |-> {}]

\* One key at a time, every fault the API and the store can produce.
InitRetry ==
  InitWith([keys |-> 1..RetryKeys, items |-> RetryItems, pages |-> RetryPages,
            texts |-> {"", "a"}, faults |-> AllFaults], InitStores)

\* A page with more keys than the pool is wide, an empty collection;
\* transport failures only.
InitPool ==
  InitWith([keys |-> 1..PoolKeys, items |-> PoolItems, pages |-> PoolPages, texts |-> {"a", "b"},
            faults |-> {"transport"}],
           {st \in InitStores : st = {}})

\* Several pages of at most one key; transport failures only.
InitPages ==
  InitWith([keys |-> 1..PagesKeys, items |-> PagesItems, pages |-> PagesPages, texts |-> {"a", "b"},
            faults |-> {"transport"}], {{}})

\* Two pages of up to two keys, an empty collection; the per-key failures:
\* a 404, a payload without description, a retryable status.
InitContain ==
  InitWith([keys |-> 1..ContainKeys, items |-> ContainItems, pages |-> ContainPages,
            texts |-> {"a"}, faults |-> {"notfound", "nodesc", "status"}], {{}})

\* Two pages of one key each, two keys, two texts, an empty collection.
InitEnd ==
  InitWith([keys |-> 1..EndKeys, items |-> EndItems, pages |-> EndPages,
            texts |-> {"a", "b"}, faults |-> {"transport"}], {{}})

\* ------------------------------------------------------------ the store
NoUniqueIndex(key, hash) == FALSE

\* init-mongo.js: unique index on id, unique sparse index on description_hash.
\* A write of (key, hash) breaks the second index when another record
\* already carries the hash.
DuplicateKeyError(key, hash) ==
  \E r \in store : r.id # key /\ r.description_hash = hash /\ hash # NoHash

UpdateOneWithoutHash(key, text) ==
  {r \in store : r.id # key} \cup
  {[id |-> key, description |-> text, description_hash |-> NoHash]}

\* collection.UpdateOne(filter {id}, {$set: data}, upsert): the record with
\* this id is replaced by the new data, or inserted when there is none.
UpdateOne(key, text) ==
  {r \in store : r.id # key} \cup
  {[id |-> key, description |-> text, description_hash |-> md5Hash(text)]}

\* The run is no longer one in which everything succeeded.
Spoiled == [clean |-> FALSE, keys |-> {}, texts |-> {}]

\* The run met a detail response: a usable payload with a new text, or not.
Served(r) ==
  observed' = IF /\ observed.clean
                 /\ KindOf(r) = "ok"
                 /\ r.description.val \notin observed.texts \cup {""}
              THEN [observed EXCEPT !.texts = @ \cup {r.description.val}]
              ELSE Spoiled

\* The run met a store call that returned an error.
StoreFailed == observed' = Spoiled

\* SafeMap.Exists / MongoStore.DescriptionHashExists
Exists(hash) == hash \in existingDescriptionHashes

\* MongoStore.VacancyExists and the map lookup of main.go
VacancyExists(id) == id \in existingVacancyIDs

AddDescriptionHashReplacing(hash) == existingDescriptionHashes' = {hash}

\* SafeMap.Add / MongoStore.AddDescriptionHash
AddDescriptionHash(hash) ==
  existingDescriptionHashes' = existingDescriptionHashes \cup {hash}

SemAlwaysHasRoom == TRUE

\* sem <- struct{}{} goes through only while the channel has room.
SemHasRoom == sem < MaxConcurrency

\* --------------------------------------------------------- worker helpers
\* The worker's goroutine ends: the deferred <-sem gives the token back.
Terminal(w, out) ==
  /\ wpc' = [wpc EXCEPT ![w] = "done"]
  /\ outcome' = [outcome EXCEPT ![w] = out]
  /\ sem' = sem - 1
  /\ UNCHANGED retries

RetryMainReleasing(w, kind) ==
  /\ seen' = [seen EXCEPT ![w] = @ \cup {kind}]
  /\ IF retries[w] < MaxRetries
     THEN /\ retries' = [retries EXCEPT ![w] = @ + 1]
          /\ wpc' = [wpc EXCEPT ![w] = "sleep"]
          /\ sem' = sem - 1
          /\ UNCHANGED outcome
     ELSE Terminal(w, "Failed")

RetryMainUncounted(w, kind) ==
  /\ seen' = [seen EXCEPT ![w] = @ \cup {kind}]
  /\ wpc' = [wpc EXCEPT ![w] = "sleep"]
  /\ UNCHANGED <<sem, outcome, retries>>

MayRetryMainOffByOne(w) == retries[w] <= MaxRetries

\* main.go fetchVacancyDetails: what the retry loop does with ErrRetryable.
MayRetryMain(w) == retries[w] < MaxRetries

RetryMain(w, kind) ==
  /\ seen' = [seen EXCEPT ![w] = @ \cup {kind}]
  /\ IF MayRetryMain(w)
     THEN /\ retries' = [retries EXCEPT ![w] = @ + 1]
          /\ wpc' = [wpc EXCEPT ![w] = "sleep"]
          /\ UNCHANGED <<sem, outcome>>
     ELSE Terminal(w, "Failed")

RetryModularStoreFree(w, kind) ==
  /\ seen' = [seen EXCEPT ![w] = @ \cup {kind}]
  /\ IF kind = "store" \/ retries[w] < MaxRetries
     THEN /\ retries' = [retries EXCEPT ![w] = IF kind = "store" THEN @ ELSE @ + 1]
          /\ wpc' = [wpc EXCEPT ![w] = "sleep"]
          /\ UNCHANGED <<sem, outcome>>
     ELSE Terminal(w, "Failed")

\* part_003 fetchAndProcessVacancies: for retries := 0; retries <= maxRetries.
MayRetryModular(w) == retries[w] < MaxRetries

RetryModular(w, kind) ==
  /\ seen' = [seen EXCEPT ![w] = @ \cup {kind}]
  /\ IF MayRetryModular(w)
     THEN /\ retries' = [retries EXCEPT ![w] = @ + 1]
          /\ wpc' = [wpc EXCEPT ![w] = "sleep"]
          /\ UNCHANGED <<sem, outcome>>
     ELSE Terminal(w, "Failed")

Count(w) ==
  /\ savedCount' = savedCount + 1
  /\ counted' = [counted EXCEPT ![w] = @ + 1]

NotFoundRetriedMain(r) ==
  IF r.err \/ r.status # 200 THEN "retryable"
  ELSE IF ~r.json \/ r.description.type # "string" THEN "invalid"
  ELSE "ok"

\* main.go processVacancy: the error it returns for a response, or "ok" when
\* it goes on to the duplicate check.  ErrNonRetryable is told apart by its
\* cause: the 404, or the payload.
ClassifyMain(r) ==
  IF r.err THEN "retryable"
  ELSE IF r.status = 404 THEN "notfound"
  ELSE IF r.status # 200 THEN "retryable"
  ELSE IF ~r.json THEN "invalid"
  ELSE IF r.description.type # "string" THEN "invalid"
  ELSE "ok"

\* api GetVacancyDetails and part_003 processVacancy: ErrVacancyNotFound
\* makes processVacancy return nil, every other error is returned to the
\* retry loop, and so is a description that is no string or empty.
ClassifyModular(r) ==
  IF r.err THEN "retryable"
  ELSE IF r.status = 404 THEN "notfound"
  ELSE IF r.status # 200 THEN "retryable"
  ELSE IF ~r.json THEN "retryable"
  ELSE IF r.description.type # "string" \/ r.description.val = "" THEN "retryable"
  ELSE "ok"

\* The kind of a failed attempt: the request itself, or its payload.
FailureKind(r) ==
  IF KindOf(r) \in {"transport", "ratelimit", "status"} THEN "fetch" ELSE "invalid"

\* --------------------------------------------------------------- startup
LoadFailureIgnored ==
  /\ dpc = "load"
  /\ dpc' = "search"
  /\ UNCHANGED <<env, impl, observed, store, serverPages, cvars, page, totalPages, reported,
                 searchCalls, failedPages, listed, ids, next, wvars, savedCount, cancelled>>

\* loadExistingData (main.go) / MongoStore.LoadExistingData (storage): a
\* full scan fills both sets; a failed scan is fatal in main().
LoadExistingData ==
  /\ dpc = "load"
  /\ \E ok \in BOOLEAN :
       IF ok
       THEN /\ existingVacancyIDs' = {r.id : r \in store}
            /\ existingDescriptionHashes' =
                 {r.description_hash : r \in {x \in store : x.description_hash # NoHash}}
            /\ dpc' = "search"
       ELSE /\ dpc' = "fatal"
            /\ UNCHANGED cvars
  /\ UNCHANGED <<env, impl, observed, store, serverPages, page, totalPages, reported, searchCalls,
                 failedPages, listed, ids, next, wvars, savedCount, cancelled>>

NewIDsUnfiltered(items) == items

\* The keys of a page that are not in existingVacancyIDs, in page order.
NewIDs(items) == SelectSeq(items, LAMBDA id : ~VacancyExists(id))

\* The keys of a page are filtered and a fresh pool is set up for them.
StartPool(items) ==
  /\ listed' = items
  /\ ids' = NewIDs(items)
  /\ observed' = IF /\ observed.clean
                     /\ NewIDs(items) = items
                     /\ Range(items) \cap observed.keys = {}
                  THEN [observed EXCEPT !.keys = @ \cup Range(items)]
                  ELSE Spoiled
  /\ next' = 1
  /\ wpc' = Idle
  /\ retries' = [w \in Workers |-> 0]
  /\ attempts' = [w \in Workers |-> 0]
  /\ description' = [w \in Workers |-> NoText]
  /\ outcome' = [w \in Workers |-> "none"]
  /\ seen' = [w \in Workers |-> {}]
  /\ last' = [w \in Workers |-> "none"]
  /\ wrote' = [w \in Workers |-> FALSE]
  /\ counted' = [w \in Workers |-> 0]
  /\ UNCHANGED sem

NextPageOrStopLate(tp) ==
  IF page >= tp
  THEN /\ dpc' = "done"
       /\ reported' = savedCount
       /\ UNCHANGED page
  ELSE /\ dpc' = "search"
       /\ page' = page + 1
       /\ UNCHANGED reported

\* "if page >= totalPages-1 { break }  page++" with the totalPages given.
NextPageOrStop(tp) ==
  IF page >= tp - 1
  THEN /\ dpc' = "done"
       /\ reported' = savedCount
       /\ UNCHANGED page
  ELSE /\ dpc' = "search"
       /\ page' = page + 1
       /\ UNCHANGED reported

SetTotalPagesAlways == totalPages' = serverPages

\* "if page == 0 { totalPages = searchResp.Pages }"
SetTotalPages == totalPages' = IF page = 0 THEN serverPages ELSE totalPages

RetrySamePage == page' = page

\* "page++; continue" after a search request that failed.
SkipPage == page' = page + 1

\* The items the server lists on a page: nothing past its last page.
ItemsOf(p) == IF p < serverPages THEN PageItems(env.keys, env.items) ELSE {<<>>}

\* The detail responses and store failures of this behaviour's environment.
Responses ==
  {r \in DetailResponses :
     IF KindOf(r) = "ok" THEN r.description.val \in env.texts ELSE KindOf(r) \in env.faults}

StoreDown == IF "store" \in env.faults THEN BOOLEAN ELSE {FALSE}

\* http.NewRequestWithContext(ctx, ...) + HTTPClient.Do: once ctx is done the
\* request comes back with the error of the context.
ResponsesWithContext == IF cancelled THEN {[err |-> TRUE]} ELSE Responses

\* =================================================== src/main.go (impl "main")
\* fetchAndStoreVacancies, one turn of the for loop: the search request for
\* the current page and what the loop does with its result.
SearchMain ==
  /\ impl = "main"
  /\ dpc = "search"
  /\ page <= env.pages
  /\ searchCalls' = Append(searchCalls, page)
  /\ \E r \in SearchResults, items \in ItemsOf(page) :
       CASE r = "ok" ->
              /\ SetTotalPages
              /\ StartPool(items)
              /\ dpc' = "process"
              /\ UNCHANGED <<page, reported, failedPages>>
         [] r \in {"transport", "parse"} ->
              /\ failedPages' = failedPages \cup {page}
              /\ SkipPage
              /\ UNCHANGED <<dpc, totalPages, reported, listed, ids, next, wvars, observed>>
         [] r = "status" ->
              /\ failedPages' = failedPages \cup {page}
              /\ NextPageOrStop(totalPages)
              /\ UNCHANGED <<totalPages, listed, ids, next, wvars, observed>>
  /\ UNCHANGED <<env, impl, store, serverPages, cvars, savedCount, cancelled>>

\* fetchVacancyDetails: one goroutine per key; the goroutine takes a token
\* of the semaphore and issues its first detail request.
AcquireMain(w) ==
  /\ impl = "main"
  /\ dpc = "process"
  /\ w \in 1..Len(ids)
  /\ wpc[w] = "idle"
  /\ SemHasRoom
  /\ sem' = sem + 1
  /\ wpc' = [wpc EXCEPT ![w] = "fetching"]
  /\ attempts' = [attempts EXCEPT ![w] = 1]
  /\ UNCHANGED <<env, impl, observed, store, serverPages, cvars, dvars, retries, description,
                 outcome, seen, last, wrote, counted, savedCount, cancelled>>

\* processVacancy up to the duplicate check, with the handling of its
\* return value in fetchVacancyDetails.
FetchMain(w) ==
  /\ impl = "main"
  /\ wpc[w] = "fetching"
  /\ \E r \in Responses :
       /\ last' = [last EXCEPT ![w] = PayloadKind(r)]
       /\ Served(r)
       /\ CASE ClassifyMain(r) = "retryable" ->
                 /\ RetryMain(w, FailureKind(r))
                 /\ UNCHANGED <<description, savedCount, counted>>
            [] ClassifyMain(r) = "notfound" ->
                 /\ Terminal(w, "SkippedNotFound")
                 /\ UNCHANGED <<description, savedCount, counted, seen>>
            [] ClassifyMain(r) = "invalid" ->
                 /\ Terminal(w, "SkippedInvalid")
                 /\ UNCHANGED <<description, savedCount, counted, seen>>
            [] ClassifyMain(r) = "ok" ->
                 /\ description' = [description EXCEPT ![w] = r.description.val]
                 /\ IF Exists(md5Hash(r.description.val))
                    THEN \* return nil: the caller counts it as saved
                         /\ Terminal(w, "SkippedDuplicate")
                         /\ Count(w)
                         /\ UNCHANGED seen
                    ELSE /\ wpc' = [wpc EXCEPT ![w] = "upsert"]
                         /\ UNCHANGED <<sem, retries, outcome, seen, savedCount, counted>>
  /\ UNCHANGED <<env, impl, store, serverPages, cvars, dvars, attempts, wrote, cancelled>>

\* processVacancy: collection.UpdateOne and its error branch.
UpsertMain(w) ==
  /\ impl = "main"
  /\ wpc[w] = "upsert"
  /\ \E down \in StoreDown :
       IF down
       THEN /\ RetryMain(w, "store")
            /\ StoreFailed
            /\ UNCHANGED <<store, wrote>>
       ELSE IF DuplicateKeyError(ids[w], md5Hash(description[w]))
       THEN /\ RetryMain(w, "reject")
            /\ StoreFailed
            /\ UNCHANGED <<store, wrote>>
       ELSE /\ store' = UpdateOne(ids[w], description[w])
            /\ wrote' = [wrote EXCEPT ![w] = TRUE]
            /\ wpc' = [wpc EXCEPT ![w] = "add"]
            /\ UNCHANGED <<sem, retries, outcome, seen, observed>>
  /\ UNCHANGED <<env, impl, serverPages, cvars, dvars, attempts, description,
                 last, savedCount, counted, cancelled>>

\* processVacancy: existingDescriptionHashes.Add, return nil; the caller's
\* atomic.AddInt64(savedCount, 1).
AddMain(w) ==
  /\ impl = "main"
  /\ wpc[w] = "add"
  /\ AddDescriptionHash(md5Hash(description[w]))
  /\ Count(w)
  /\ Terminal(w, "Stored")
  /\ UNCHANGED <<env, impl, observed, store, serverPages, existingVacancyIDs, dvars, attempts,
                 description, seen, last, wrote, cancelled>>

\* time.Sleep(RetryDelay) is over: continue, the next detail request.
WakeMain(w) ==
  /\ impl = "main"
  /\ wpc[w] = "sleep"
  /\ wpc' = [wpc EXCEPT ![w] = "fetching"]
  /\ attempts' = [attempts EXCEPT ![w] = @ + 1]
  /\ last' = [last EXCEPT ![w] = "none"]
  /\ UNCHANGED <<env, impl, observed, store, serverPages, cvars, dvars, sem, retries, description,
                 outcome, seen, wrote, counted, savedCount, cancelled>>

WaitMainEarly ==
  /\ impl = "main"
  /\ dpc = "process"
  /\ NextPageOrStop(totalPages)
  /\ UNCHANGED <<env, impl, observed, store, serverPages, cvars, totalPages, searchCalls,
                 failedPages, listed, ids, next, wvars, savedCount, cancelled>>

WaitMainUnlessFailed ==
  /\ impl = "main"
  /\ dpc = "process"
  /\ \A w \in 1..Len(ids) : wpc[w] = "done" /\ outcome[w] # "Failed"
  /\ NextPageOrStop(totalPages)
  /\ UNCHANGED <<env, impl, observed, store, serverPages, cvars, totalPages, searchCalls,
                 failedPages, listed, ids, next, wvars, savedCount, cancelled>>

\* wg.Wait() returns, then the test for the last page.
WaitMain ==
  /\ impl = "main"
  /\ dpc = "process"
  /\ \A w \in 1..Len(ids) : wpc[w] = "done"
  /\ NextPageOrStop(totalPages)
  /\ UNCHANGED <<env, impl, observed, store, serverPages, cvars, totalPages, searchCalls,
                 failedPages, listed, ids, next, wvars, savedCount, cancelled>>

\* ================= part_003 + api + storage (impl "modular")
\* The context handed to fetchAndStoreVacancies is cancelled by its owner.
Cancel ==
  /\ impl = "modular"
  /\ dpc \in {"search", "process"}
  /\ ~cancelled
  /\ cancelled' = TRUE
  /\ UNCHANGED <<env, impl, observed, store, serverPages, cvars, dvars, wvars, savedCount>>

\* fetchAndStoreVacancies, one turn of the for loop: the select on
\* ctx.Done(), else GetVacancyIDs for the current page and its result.
SearchModular ==
  /\ impl = "modular"
  /\ dpc = "search"
  /\ IF cancelled
     THEN /\ dpc' = "done"
          /\ reported' = savedCount
          /\ UNCHANGED <<page, totalPages, searchCalls, failedPages, listed, ids, next, wvars, observed>>
     ELSE /\ page <= env.pages
          /\ searchCalls' = Append(searchCalls, page)
          /\ \E r \in SearchResults, items \in ItemsOf(page) :
               IF r = "ok"
               THEN /\ SetTotalPages
                    /\ StartPool(items)
                    /\ dpc' = "process"
                    /\ UNCHANGED <<page, reported, failedPages>>
               ELSE /\ failedPages' = failedPages \cup {page}
                    /\ SkipPage
                    /\ UNCHANGED <<dpc, totalPages, reported, listed, ids, next, wvars, observed>>
  /\ UNCHANGED <<env, impl, store, serverPages, cvars, savedCount, cancelled>>

\* fetchAndProcessVacancies, the select of the dispatch loop taking the case
\* "sem <- struct{}{}": the next key gets a token and its goroutine, which
\* issues the first detail request.
DispatchModular(w) ==
  /\ impl = "modular"
  /\ dpc = "process"
  /\ w = next
  /\ w \in 1..Len(ids)
  /\ SemHasRoom
  /\ sem' = sem + 1
  /\ next' = next + 1
  /\ wpc' = [wpc EXCEPT ![w] = "fetching"]
  /\ attempts' = [attempts EXCEPT ![w] = 1]
  /\ UNCHANGED <<env, impl, observed, store, serverPages, cvars, dpc, page, totalPages, reported,
                 searchCalls, failedPages, listed, ids, retries, description, outcome, seen,
                 last, wrote, counted, savedCount, cancelled>>

\* fetchAndProcessVacancies, the select taking the case "<-ctx.Done()":
\* return ctx.Err() without wg.Wait(); the caller logs it and goes on to the
\* test for the last page.
AbortDispatchModular ==
  /\ impl = "modular"
  /\ dpc = "process"
  /\ cancelled
  /\ next \in 1..Len(ids)
  /\ NextPageOrStop(totalPages)
  /\ UNCHANGED <<env, impl, observed, store, serverPages, cvars, totalPages, searchCalls,
                 failedPages, listed, ids, next, wvars, savedCount, cancelled>>

\* GetVacancyDetails and processVacancy up to the duplicate check, with the
\* handling of the error in the retry loop of fetchAndProcessVacancies.
FetchModular(w) ==
  /\ impl = "modular"
  /\ wpc[w] = "fetching"
  /\ \E r \in ResponsesWithContext :
       /\ last' = [last EXCEPT ![w] = PayloadKind(r)]
       /\ Served(r)
       /\ CASE ClassifyModular(r) = "retryable" ->
                 /\ RetryModular(w, FailureKind(r))
                 /\ UNCHANGED description
            [] ClassifyModular(r) = "notfound" ->
                 /\ Terminal(w, "SkippedNotFound")
                 /\ UNCHANGED <<description, seen>>
            [] ClassifyModular(r) = "ok" ->
                 /\ description' = [description EXCEPT ![w] = r.description.val]
                 /\ IF Exists(md5Hash(r.description.val))
                    THEN /\ Terminal(w, "SkippedDuplicate")
                         /\ UNCHANGED seen
                    ELSE /\ wpc' = [wpc EXCEPT ![w] = "upsert"]
                         /\ UNCHANGED <<sem, retries, outcome, seen>>
  /\ UNCHANGED <<env, impl, store, serverPages, cvars, dvars, attempts, wrote,
                 savedCount, counted, cancelled>>

\* processVacancy: store.UpsertVacancy and its error branch.
UpsertModular(w) ==
  /\ impl = "modular"
  /\ wpc[w] = "upsert"
  /\ \E down \in StoreDown :
       IF down
       THEN /\ RetryModular(w, "store")
            /\ StoreFailed
            /\ UNCHANGED <<store, wrote>>
       ELSE IF DuplicateKeyError(ids[w], md5Hash(description[w]))
       THEN /\ RetryModular(w, "reject")
            /\ StoreFailed
            /\ UNCHANGED <<store, wrote>>
       ELSE /\ store' = UpdateOne(ids[w], description[w])
            /\ wrote' = [wrote EXCEPT ![w] = TRUE]
            /\ wpc' = [wpc EXCEPT ![w] = "add"]
            /\ UNCHANGED <<sem, retries, outcome, seen, observed>>
  /\ UNCHANGED <<env, impl, serverPages, cvars, dvars, attempts, description,
                 last, savedCount, counted, cancelled>>

\* processVacancy: store.AddDescriptionHash, atomic.AddInt64(savedCount, 1),
\* return nil.
AddModular(w) ==
  /\ impl = "modular"
  /\ wpc[w] = "add"
  /\ AddDescriptionHash(md5Hash(description[w]))
  /\ Count(w)
  /\ Terminal(w, "Stored")
  /\ UNCHANGED <<env, impl, observed, store, serverPages, existingVacancyIDs, dvars, attempts,
                 description, seen, last, wrote, cancelled>>

\* time.Sleep(retryDelay) is over: the next turn of the retry loop.
WakeModular(w) ==
  /\ impl = "modular"
  /\ wpc[w] = "sleep"
  /\ wpc' = [wpc EXCEPT ![w] = "fetching"]
  /\ attempts' = [attempts EXCEPT ![w] = @ + 1]
  /\ last' = [last EXCEPT ![w] = "none"]
  /\ UNCHANGED <<env, impl, observed, store, serverPages, cvars, dvars, sem, retries, description,
                 outcome, seen, wrote, counted, savedCount, cancelled>>

WaitModularEarly ==
  /\ impl = "modular"
  /\ dpc = "process"
  /\ next > Len(ids)
  /\ NextPageOrStop(totalPages)
  /\ UNCHANGED <<env, impl, observed, store, serverPages, cvars, totalPages, searchCalls,
                 failedPages, listed, ids, next, wvars, savedCount, cancelled>>

\* wg.Wait() returns after the last key was dispatched, then the test for
\* the last page.
WaitModular ==
  /\ impl = "modular"
  /\ dpc = "process"
  /\ next > Len(ids)
  /\ \A w \in 1..Len(ids) : wpc[w] = "done"
  /\ NextPageOrStop(totalPages)
  /\ UNCHANGED <<env, impl, observed, store, serverPages, cvars, totalPages, searchCalls,
                 failedPages, listed, ids, next, wvars, savedCount, cancelled>>

\* ------------------------------------------------------- specification
Next ==
  \/ LoadExistingData
  \/ SearchMain
  \/ WaitMain
  \/ \E w \in Workers : AcquireMain(w)
  \/ \E w \in Workers : FetchMain(w)
  \/ \E w \in Workers : UpsertMain(w)
  \/ \E w \in Workers : AddMain(w)
  \/ \E w \in Workers : WakeMain(w)
  \/ Cancel
  \/ SearchModular
  \/ AbortDispatchModular
  \/ WaitModular
  \/ \E w \in Workers : DispatchModular(w)
  \/ \E w \in Workers : FetchModular(w)
  \/ \E w \in Workers : UpsertModular(w)
  \/ \E w \in Workers : AddModular(w)
  \/ \E w \in Workers : WakeModular(w)

SpecRetry == InitRetry /\ [][Next]_vars
SpecPool == InitPool /\ [][Next]_vars
SpecPages == InitPages /\ [][Next]_vars
SpecEnd == InitEnd /\ [][Next]_vars

\* The runtime schedules every goroutine that can run, a sleep ends and a
\* request comes back: a step is taken whenever one can be.
SpecContain == InitContain /\ [][Next]_vars /\ WF_vars(Next)

TypeOK ==
  /\ sem \in 0..MaxConcurrency
  /\ \A w \in Workers : retries[w] \in 0..MaxRetries

\* ------------------------------------------------------------ properties
Active == 1..Len(ids)
InFlight == {w \in Workers : wpc[w] = "fetching"}
Finished(w) == wpc[w] = "done"

\* C1: whatever the number of keys handed to the pool, the number of detail
\* requests in flight never exceeds the pool width.
C1_InFlightBounded == Cardinality(InFlight) <= MaxConcurrency

\* The pool is full and a further key of the page is still waiting.
C1_Witness ==
  /\ Cardinality(InFlight) = MaxConcurrency
  /\ \E w \in Active : wpc[w] = "idle"

\* Two keys of the page carry the same text, no other record has it, and
\* neither worker met a failure other than the index rejecting its write.
SameTextPair(w1, w2) ==
  /\ w1 \in Active /\ w2 \in Active /\ w1 # w2
  /\ Finished(w1) /\ Finished(w2)
  /\ description[w1] # NoText
  /\ description[w1] = description[w2]
  /\ seen[w1] \subseteq {"reject"} /\ seen[w2] \subseteq {"reject"}
  /\ \A r \in store : r.description_hash = md5Hash(description[w1])
                        => r.id \in {ids[w1], ids[w2]}
  /\ \A w \in Active \ {w1, w2} : description[w] # description[w1]

\* C2: of two keys with the same description text, processed in one run,
\* exactly one ends Stored and the other SkippedDuplicate, in every
\* interleaving; a rejection by the store's index never ends in Failed.
C2_OneStoredOneDuplicate ==
  \A w1, w2 \in Workers :
    SameTextPair(w1, w2) =>
      {outcome[w1], outcome[w2]} = {"Stored", "SkippedDuplicate"}

\* C3: the collection never holds two records with one id, nor two records
\* with one non-empty description_hash.
C3_StoreUnique ==
  \A r1, r2 \in store :
    /\ r1.id = r2.id => r1 = r2
    /\ (r1.description_hash = r2.description_hash /\ r1.description_hash # NoHash)
         => r1 = r2

\* A write was turned down by the index while the collection holds records.
C3_Witness ==
  /\ \E w \in Active : "reject" \in seen[w]
  /\ \E r1, r2 \in store : r1.description_hash # r2.description_hash


FetchFaults == {"transport", "ratelimit", "status"}
Dispatched(w) == w \in Active /\ wpc[w] # "idle"

\* C4: a key whose detail request comes back 404 ends SkippedNotFound with
\* that one request: no retry follows, the worker writes nothing to the
\* collection and adds nothing to the stored count.
C4_NotFoundOnce ==
  \A w \in Workers :
    last[w] = "notfound" =>
      /\ Finished(w)
      /\ outcome[w] = "SkippedNotFound"
      /\ attempts[w] = retries[w] + 1
      /\ (seen[w] = {} => attempts[w] = 1)
      /\ ~wrote[w]
      /\ counted[w] = 0

\* The first request of a key came back 404.
C4_Witness ==
  \E w \in Active : last[w] = "notfound" /\ attempts[w] = 1 /\ store # {}

\* C5: while every request of a key fails with a retryable outcome (403,
\* 429, another status that is neither 200 nor 404, a transport failure),
\* the key is retried after each failure up to MaxRetries times, and the
\* failure of request MaxRetries + 1 ends it Failed.
C5_RetriesBounded ==
  \A w \in Workers :
    (seen[w] = {"fetch"} /\ last[w] \in FetchFaults) =>
      /\ attempts[w] <= MaxRetries + 1
      /\ attempts[w] <= MaxRetries => (wpc[w] = "sleep" /\ outcome[w] = "none")
      /\ attempts[w] = MaxRetries + 1 => (Finished(w) /\ outcome[w] = "Failed")
      /\ ~wrote[w] /\ counted[w] = 0

\* Every request of a key failed with a retryable fetch outcome, the last
\* one with a rate limit, and the key ended Failed.
C5_Witness ==
  \E w \in Active :
    /\ outcome[w] = "Failed"
    /\ seen[w] = {"fetch"}
    /\ last[w] = "ratelimit"
    /\ attempts[w] = MaxRetries + 1

\* C6: a key whose first k requests fail with a retryable fetch outcome and
\* whose next request brings a usable description not yet in the cache ends
\* Stored after exactly k + 1 requests, its record in the collection.
C6_StoredAfterRetries ==
  \A w \in Workers :
    (Finished(w) /\ last[w] = "ok" /\ seen[w] \subseteq {"fetch"}
       /\ outcome[w] # "SkippedDuplicate") =>
      /\ outcome[w] = "Stored"
      /\ attempts[w] = retries[w] + 1
      /\ (seen[w] = {} <=> retries[w] = 0)
      /\ retries[w] <= MaxRetries
      /\ \E r \in store : r.id = ids[w] /\ r.description = description[w]
      /\ md5Hash(description[w]) \in existingDescriptionHashes

\* Two failed requests, the third one stored.
C6_Witness ==
  \E w \in Active :
    /\ outcome[w] = "Stored"
    /\ seen[w] = {"fetch"}
    /\ retries[w] = 2
    /\ attempts[w] = 3

\* C7: a successful detail response whose description is absent, no string
\* or empty ends the key SkippedInvalid with that one request: no retry, no
\* write to the collection.
C7_InvalidOnce ==
  \A w \in Workers :
    last[w] \in {"absent", "number", "empty"} =>
      /\ Finished(w)
      /\ outcome[w] = "SkippedInvalid"
      /\ attempts[w] = retries[w] + 1
      /\ ~wrote[w]

\* C8: fetch failures and store failures are counted by one counter per
\* key: whatever the mix, a key sees at most MaxRetries + 1 attempts, one
\* more than its counted failures, and ends Failed when the last of them fails.
C8_OneCounter ==
  \A w \in Workers :
    /\ attempts[w] <= MaxRetries + 1
    /\ Dispatched(w) => attempts[w] = retries[w] + (IF wpc[w] = "sleep" THEN 0 ELSE 1)
    /\ wpc[w] = "sleep" => attempts[w] <= MaxRetries
    /\ outcome[w] = "Failed" => (attempts[w] = MaxRetries + 1 /\ seen[w] # {})

\* A key ended Failed after failures of both kinds.
C8_Witness ==
  \E w \in Active :
    /\ outcome[w] = "Failed"
    /\ {"fetch", "store"} \subseteq seen[w]
    /\ attempts[w] = MaxRetries + 1


\* The page indices 0 .. n-1 in order.
FirstPages(n) == [i \in 1..n |-> i - 1]

\* C9: when the first page reports T pages and no search request fails,
\* the driver requests the pages 0, 1, ..., T-1 in this order, never a
\* further one, and has requested exactly these T when the run ends.
C9_PagesInOrder ==
  (failedPages = {} /\ ~cancelled) =>
    /\ searchCalls = FirstPages(Len(searchCalls))
    /\ Len(searchCalls) <= serverPages
    /\ searchCalls # <<>> => totalPages = serverPages
    /\ dpc = "done" => searchCalls = FirstPages(serverPages)

\* A run over three pages ended after the requests for pages 0, 1 and 2.
C9_Witness ==
  /\ dpc = "done"
  /\ failedPages = {}
  /\ ~cancelled
  /\ serverPages = 3
  /\ searchCalls = <<0, 1, 2>>

\* C10: a failed search request, at whatever page index, does not end the
\* run: the driver goes on with the next page, so that when the run ends
\* every page after a failed one has been requested.
C10_FailedPageSkipped ==
  (dpc = "done" /\ ~cancelled) =>
    \A p \in failedPages :
      \A q \in (p + 1)..(serverPages - 1) : q \in Range(searchCalls)


\* C11: when the search request for page 0 fails, so that totalPages is
\* never established, the run ends as a fatal startup failure and no
\* further page is requested.
C11_FirstPageFatal ==
  0 \in failedPages => (dpc = "fatal" /\ searchCalls = <<0>>)

\* C12: once the context is cancelled, no search request for a further page
\* is issued and no further key is given a worker; only the requests
\* already in flight go on.
C12_NothingNewAfterCancel ==
  [][cancelled => /\ searchCalls' = searchCalls
                  /\ \A w \in Workers : wpc[w] = "idle" => wpc'[w] = "idle"]_vars

\* Workers that were started and have not returned.
Running == {w \in Workers : wpc[w] \in {"fetching", "upsert", "add", "sleep"}}

\* C13: after a cancellation the run returns its stored count only when
\* every worker in flight has finished: once the count is returned no
\* worker is running, so no write and no count increment can follow.
C13_DrainedBeforeReport ==
  (cancelled /\ dpc = "done") => (Running = {} /\ savedCount = reported)

\* C14: fingerprints are only ever added to the cache, never removed: a
\* step leaves every fingerprint of the cache in it, and the fingerprint of
\* a key that ended Stored is in the cache, for every worker, from then on.
C14_CacheOnlyGrows ==
  [][/\ existingDescriptionHashes \subseteq existingDescriptionHashes'
     /\ \A w \in Workers :
          outcome'[w] = "Stored" =>
            md5Hash(description'[w]) \in existingDescriptionHashes']_vars

\* One worker stored a text and added its fingerprint, another worker then
\* stored a different text, and a third one found the first fingerprint.
C14_Witness ==
  \E w1, w2, w3 \in Active :
    /\ outcome[w1] = "Stored" /\ outcome[w2] = "Stored" /\ outcome[w3] = "SkippedDuplicate"
    /\ description[w1] # description[w2]
    /\ description[w3] = description[w1]

\* A search or detail request has been issued.
FetchingBegun == searchCalls # <<>> \/ \E w \in Workers : attempts[w] > 0

\* The record is being written by a worker that has not yet added its
\* fingerprint to the cache.
BeingAdded(r) == \E w \in Active : wpc[w] = "add" /\ ids[w] = r.id

\* C15: no search request and no detail request is issued before the cache
\* has been loaded completely from the collection, and a failed load ends
\* the run with nothing fetched: while the load is pending or has failed no
\* request was made, and once one was made the cache holds the fingerprint
\* of every record of the collection.
C15_LoadBeforeFetch ==
  /\ dpc \in {"load", "fatal"} => ~FetchingBegun
  /\ FetchingBegun =>
       \A r \in store :
         (r.description_hash # NoHash /\ ~BeingAdded(r)) => Exists(r.description_hash)

\* A detail request was issued with a cache loaded from a collection that
\* held a record.
C15_Witness ==
  /\ \E w \in Active : attempts[w] > 0
  /\ existingDescriptionHashes # {}
  /\ existingVacancyIDs # {}

\* C16: a key that is in the key set of the cache when its page is
\* processed is not handed to the worker pool, so no detail request and no
\* write is made for it: the pool gets the listed keys that are not in the
\* set, in page order, and a record of a key of the set is never touched.
C16_KnownKeyNotDispatched ==
  /\ \A w \in Active : ~VacancyExists(ids[w])
  /\ \A k \in Range(listed) : VacancyExists(k) => k \notin Range(ids)
  /\ \A k \in Range(listed) : ~VacancyExists(k) => k \in Range(ids)
  /\ \A r \in store : VacancyExists(r.id) => r \in UNION InitStores

\* A page listed a key of the set and the run went on to the end with
\* the record of that key as it was.
C16_Witness ==
  /\ dpc = "done"
  /\ \E k \in Range(listed) : VacancyExists(k) /\ \E r \in store : r.id = k
  /\ ids = <<>>

\* C17: after a record with key k was stored during the run, the key set of
\* the cache contains k for the rest of the run, so that a later page that
\* lists k again does not hand k to the worker pool a second time: a key
\* waiting for its worker has no record in the collection.
C17_StoredKeyNotDispatchedAgain ==
  \A w \in Active :
    (dpc = "process" /\ wpc[w] = "idle") => ~\E r \in store : r.id = ids[w]

\* C18: when the fingerprint of a fetched description is already in the
\* cache, the key ends SkippedDuplicate, and the collection, the cache and
\* the stored count are left as they were: the worker wrote no record and
\* added nothing to the count.
C18_DuplicateChangesNothing ==
  \A w \in Workers :
    outcome[w] = "SkippedDuplicate" =>
      /\ Finished(w)
      /\ Exists(md5Hash(description[w]))
      /\ ~wrote[w]
      /\ counted[w] = 0

\* The keys of the current page that ended Stored.
StoredKeys == {w \in Active : outcome[w] = "Stored"}

\* C19: the stored count is the number of keys that ended Stored: a worker
\* adds one to it when its upsert succeeded and never for another outcome,
\* and the count a one-page run returns is the number of its Stored keys.
C19_CountIsStored ==
  /\ \A w \in Workers : counted[w] = IF outcome[w] = "Stored" THEN 1 ELSE 0
  /\ (dpc = "done" /\ Len(searchCalls) = 1 /\ ~cancelled) =>
       reported = Cardinality(StoredKeys)

PerKeyFailures == {"Failed", "SkippedNotFound", "SkippedInvalid"}
KeyFailed == \E w \in Active : outcome[w] \in PerKeyFailures
RunDisturbed == cancelled \/ failedPages # {}

\* C20: a key that ends Failed, SkippedNotFound or SkippedInvalid stops
\* neither the other keys of its page nor the driver: unless a search
\* request fails or the run is cancelled, the other keys of the page reach
\* their terminal outcomes, the driver requests the following pages and
\* the run ends normally with its stored count reported.
C20_FailuresContained ==
  /\ KeyFailed ~> (RunDisturbed \/ \A w \in Active : Finished(w))
  /\ KeyFailed ~> (RunDisturbed \/ (dpc = "done" /\ reported = savedCount))
  /\ []((dpc = "done" /\ ~RunDisturbed) =>
          /\ \A w \in Active : Finished(w)
          /\ searchCalls = FirstPages(serverPages))

\* A run over two pages ended normally; on its last page one key ended
\* Failed after its retries and the other key was stored.
C20_Witness ==
  /\ dpc = "done" /\ ~RunDisturbed
  /\ searchCalls = <<0, 1>>
  /\ \E w1, w2 \in Active : outcome[w1] = "Failed" /\ outcome[w2] = "Stored"

\* The run ended after only successful calls, K new keys and K different
\* non-empty texts.
CleanRun == dpc = "done" /\ failedPages = {} /\ ~cancelled /\ observed.clean

\* C21: when every search and detail call succeeds, all K listed keys are
\* new and their K descriptions are non-empty and pairwise different, the
\* run reports K stored and no other outcome, and the collection holds K
\* new records, each with a non-empty description_hash that is the
\* fingerprint of its own description.
C21_AllStored ==
  CleanRun =>
    /\ searchCalls = FirstPages(serverPages)
    /\ reported = Cardinality(observed.keys)
    /\ \A w \in Active : outcome[w] = "Stored"
    /\ Cardinality(store) = Cardinality(observed.keys)
    /\ {r.id : r \in store} = observed.keys
    /\ {r.description : r \in store} = observed.texts
    /\ \A r \in store : r.description_hash = md5Hash(r.description)
                          /\ r.description_hash # NoHash

\* Two pages of one key each, both keys new, two different texts.
C21_Witness ==
  /\ CleanRun
  /\ searchCalls = <<0, 1>>
  /\ Cardinality(observed.keys) = 2
  /\ Cardinality(store) = 2

\* The request for page 0 failed and the run was not cancelled.
FirstPageFailed == 0 \in failedPages /\ ~cancelled

SameText(w1, w2) ==
  /\ w1 \in Active /\ w2 \in Active /\ w1 # w2
  /\ ids[w1] # ids[w2]
  /\ description[w1] # NoText
  /\ description[w1] = description[w2]

\* C23: the cache check and the write are not one step: two workers with
\* different keys and one fingerprint can both pass the check before
\* either has added the fingerprint, both call the upsert, and it is the
\* unique index of the collection alone that turns the second one down:
\* of two such workers at most one has written, and the collection never
\* holds the text under both keys.
C23_RaceStoppedByIndex ==
  \A w1, w2 \in Workers :
    SameText(w1, w2) =>
      /\ ~(wrote[w1] /\ wrote[w2])
      /\ ~(\E r1, r2 \in store :
             /\ r1.id = ids[w1] /\ r2.id = ids[w2]
             /\ r1.description = description[w1]
             /\ r2.description = description[w1])

\* Both workers passed the check; the first has written and has not yet
\* added the fingerprint, the upsert of the second was turned down.
C23_Witness ==
  \E w1, w2 \in Workers :
    /\ SameText(w1, w2)
    /\ wpc[w1] = "add" /\ wrote[w1]
    /\ ~Exists(md5Hash(description[w1]))
    /\ "reject" \in seen[w2] /\ ~wrote[w2]

\* C24: without a cancellation the pages are processed one after another:
\* the search request for the next page is issued only when every key
\* handed to the pool for the current page has reached its terminal
\* outcome, so workers of two pages never run at the same time.
C24_PagesOneAfterAnother ==
  [][(~cancelled /\ searchCalls' # searchCalls) =>
       (Running = {} /\ \A w \in Active : Finished(w))]_vars

\* A key of the first page was stored, and the two workers of the second
\* page are at their first request.
C24_Witness ==
  /\ ~cancelled
  /\ searchCalls = <<0, 1>>
  /\ store # {}
  /\ Len(ids) = 2
  /\ \A w \in Active : wpc[w] = "fetching" /\ attempts[w] = 1

TerminalOutcomes ==
  {"Stored", "SkippedDuplicate", "SkippedNotFound", "SkippedInvalid", "Failed"}

\* C25: without a cancellation, and every request and store call coming
\* back, each key handed to the pool ends with exactly one terminal
\* outcome, which then stays, and the pool returns to the driver only when
\* every key it was handed has its outcome.
C25_EveryKeyEnds ==
  /\ \A w \in Workers :
        (dpc = "process" /\ w \in Active) ~> (cancelled \/ Finished(w))
  /\ [](\A w \in Workers : Finished(w) <=> outcome[w] \in TerminalOutcomes)
  /\ [][\A w \in Workers :
          (outcome[w] # "none" /\ searchCalls' = searchCalls) => outcome'[w] = outcome[w]]_vars
  /\ [][(~cancelled /\ dpc = "process" /\ dpc' # "process") =>
          \A w \in Active : outcome[w] \in TerminalOutcomes]_vars

\* The pool was handed two keys and returned: one was stored, the other
\* ended Failed after its retries.
C25_Witness ==
  /\ ~cancelled
  /\ dpc \in {"search", "done"}
  /\ Len(ids) = 2
  /\ {outcome[w] : w \in Active} = {"Stored", "Failed"}

\* C26: once page 0 has succeeded with totalPages = T, no search request
\* with a page index of T or more is issued, also when the request for the
\* last page (index T-1) or for an earlier page fails.
C26_NoPagePastTotal ==
  (searchCalls # <<>> /\ 0 \notin failedPages) =>
    \A i \in 1..Len(searchCalls) : searchCalls[i] < totalPages

\* The pages whose request succeeded.
SucceededPages == Range(searchCalls) \ failedPages

\* C27: totalPages is taken from the answer to the request for page 0 and
\* from no other: when that request failed, totalPages stays 0, and the
\* first later page that succeeds is the last one requested, the run
\* ending after its keys were processed whatever pages remain.
C27_TotalPagesOnlyFromPageZero ==
  /\ totalPages = IF searchCalls # <<>> /\ 0 \notin failedPages THEN serverPages ELSE 0
  /\ FirstPageFailed =>
       \A p \in SucceededPages :
         /\ p = searchCalls[Len(searchCalls)]
         /\ page = p
         /\ dpc \in {"process", "done"}

\* Page 0 failed, page 1 succeeded, and the run ended with page 2 of the
\* server's three pages never requested.
C27_Witness ==
  /\ FirstPageFailed
  /\ dpc = "done"
  /\ serverPages = 3
  /\ searchCalls = <<0, 1>>
  /\ failedPages = {0}

\* C28: the fingerprint of a record is added to the cache only after its
\* upsert succeeded, and a failed upsert leaves the cache and the stored
\* count as they were: in every reachable state each fingerprint of the
\* cache is the fingerprint of a record of the collection.
C28_CacheBackedByStore ==
  \A h \in existingDescriptionHashes : \E r \in store : r.description_hash = h

Sleeping == {w \in Workers : wpc[w] = "sleep"}

\* C29: a worker keeps its slot of the pool while it waits out the retry
\* delay: the keys being fetched, being stored or waiting to retry each
\* hold one token, so there are never more than MaxConcurrency of them,
\* and while MaxConcurrency keys wait to retry no further key starts its
\* first request.
C29_SlotKeptWhileSleeping ==
  /\ Cardinality(Running) <= MaxConcurrency
  /\ sem = Cardinality(Running)
  /\ Cardinality(Sleeping) = MaxConcurrency => ~SemHasRoom

\* The whole pool waits to retry and a further key waits for a slot.
C29_Witness ==
  /\ Cardinality(Sleeping) = MaxConcurrency
  /\ \E w \in Active : wpc[w] = "idle"
  /\ dpc = "process"

====
